---- MODULE Spec2Model ----
(***************************************************************************)
(* Contact harvesting pipeline of telegram_server.py: the verifying        *)
(* contact store (save_contact and the contacts table) and the scan loop   *)
(* (process_chats_with_scrolling, main).                                   *)
(*                                                                         *)
(* Text values (phone numbers, e-mail addresses) are sequences of          *)
(* one-character strings, so that len() is Len.  Python's None and ""      *)
(* are both the empty sequence: the code only tests their truthiness.      *)
(***************************************************************************)
EXTENDS Integers, Sequences, FiniteSets, TLC

VARIABLES
    contacts,   \* the contacts table, in insertion order (row i has id i)
    save,       \* per caller: the activation record of save_contact
    scan        \* the activation record of main / process_chats_with_scrolling

vars == <<contacts, save, scan>>

-----------------------------------------------------------------------------
(* Bounds of the model *)

NumPhones == 2      \* distinct well-formed phone numbers offered to save
NumEmails == 2      \* distinct e-mail addresses offered to save

(* Program constants *)

MinPhoneLen == 12   \* len(phone) < 12 is rejected
HttpOk == 200       \* response.status_code == 200

-----------------------------------------------------------------------------
(* Text values *)

Digits == <<"0", "1", "2", "3", "4", "5", "6", "7", "8", "9">>

Digit(i) == Digits[(i % 10) + 1]

\* a phone number of 13 characters, as clean_phone_number leaves it
PhoneOf(i) == <<"+", "8", "8", "0", "1", "7", "1", "1", "0", "0", "0", "0", Digit(i)>>

\* "+1 555 2231": a cleaned phone number of 11 characters
ShortPhone == <<"+", "1", " ", "5", "5", "5", " ", "2", "2", "3", "1">>

EmailOf(i) == <<"u", Digit(i), "@", "e", "x", ".", "c", "o", "m">>

Empty == <<>>

ValidPhones == {PhoneOf(i) : i \in 1..NumPhones}

Phones == ValidPhones \cup {ShortPhone, Empty}

RealEmails == {EmailOf(i) : i \in 1..NumEmails}

Emails == RealEmails \cup {Empty}

-----------------------------------------------------------------------------
(* The contacts table *)

\* SQL NULL, a value no text equals
NULL == <<"NULL">>

\* the table with e-mails unique among the verified rows only
UniqueViolation_VerifiedOnly(rows, email) ==
    \E i \in DOMAIN rows : rows[i].email = email /\ rows[i].is_verified

\* the table without its UNIQUE(email) constraint
UniqueViolation_Unconstrained(rows, email) == FALSE

\* UNIQUE(email): an INSERT of an e-mail some row already holds raises
\* sqlite3.IntegrityError, whatever that row's is_verified
UniqueViolation(rows, email) ==
    \E i \in DOMAIN rows : rows[i].email = email

\* the existence check with the flag inverted (is_verified = 0)
CountVerified_Inverted(rows, email) ==
    Cardinality({i \in DOMAIN rows : rows[i].email = email /\ ~rows[i].is_verified})

\* SELECT COUNT(*) FROM contacts WHERE email = ? AND is_verified = 1
CountVerified(rows, email) ==
    Cardinality({i \in DOMAIN rows : rows[i].email = email /\ rows[i].is_verified})

\* the UPDATE demoting only one of the rows of the phone
Demote_FirstOnly(rows, phone) ==
    [i \in DOMAIN rows |->
        IF rows[i].phone = phone /\ (\A j \in 1..(i - 1) : rows[j].phone # phone)
        THEN [rows[i] EXCEPT !.is_verified = FALSE]
        ELSE rows[i]]

\* UPDATE contacts SET is_verified = False WHERE phone = ?
Demote(rows, phone) ==
    [i \in DOMAIN rows |->
        IF rows[i].phone = phone
        THEN [rows[i] EXCEPT !.is_verified = FALSE]
        ELSE rows[i]]

\* the INSERT as an update in place of the rows of the phone, if any
InsertRow_Upsert(rows, phone, email) ==
    IF \E i \in DOMAIN rows : rows[i].phone = phone
    THEN [i \in DOMAIN rows |->
            IF rows[i].phone = phone
            THEN [rows[i] EXCEPT !.email = email, !.is_verified = TRUE]
            ELSE rows[i]]
    ELSE Append(rows, [id |-> Len(rows) + 1, phone |-> phone, email |-> email,
                       is_verified |-> TRUE, chat_name |-> NULL])

\* the INSERT as the docstring of save_contact words it (is_verified False)
InsertRow_Unverified(rows, phone, email) ==
    Append(rows, [id |-> Len(rows) + 1, phone |-> phone, email |-> email,
                  is_verified |-> FALSE, chat_name |-> NULL])

\* INSERT INTO contacts (phone, email, is_verified) VALUES (?, ?, True):
\* id is the autoincrement key, chat_name is not given and stays NULL
InsertRow(rows, phone, email) ==
    Append(rows, [id |-> Len(rows) + 1, phone |-> phone, email |-> email,
                  is_verified |-> TRUE, chat_name |-> NULL])

\* SELECT phone, email, chat_name, is_verified ... ORDER BY created_at DESC
\* (rows are stamped at insertion, so the order is the insertion order
\* reversed; the order of rows stamped in the same second is not modelled)
get_all_contacts(rows) ==
    [k \in 1..Len(rows) |->
        LET r == rows[Len(rows) + 1 - k]
        IN  <<r.phone, r.email, r.chat_name, r.is_verified>>]

-----------------------------------------------------------------------------
(* The verification service: what requests.post may produce *)

NetworkError == [status |-> 0, body |-> "none"]    \* RequestException
NoResponse == [status |-> 0, body |-> "unset"]     \* before the request

\* body: "malformed" (response.json() raises), "array" (JSON that is not
\* an object), "object" (an object without is_replaced == "true"),
\* "replaced" (an object with is_replaced == "true")
Bodies == {"malformed", "array", "object", "replaced"}

Responses ==
    {[status |-> s, body |-> b] : s \in {HttpOk, 500}, b \in Bodies}
        \cup {NetworkError}

-----------------------------------------------------------------------------
(* save_contact(phone, email), one action per step *)

Procs == {1, 2}

\* no call in progress; prev is the (phone, email) of the caller's last call
\* if it returned True and no other statement touched the table since
NoPrev == <<>>

IdleAfter(prev) ==
    [pc |-> "idle", phone |-> Empty, email |-> Empty, resp |-> NoResponse,
     ret |-> "unset", log |-> "none", nreq |-> 0, rows0 |-> <<>>, prev |-> prev]

Idle == IdleAfter(NoPrev)

\* the frame of a call: rows0 remembers the table at the call, nreq counts
\* the requests the call has sent
Frame(phone, email, prev) ==
    [pc |-> "validate", phone |-> phone, email |-> email, resp |-> NoResponse,
     ret |-> "unset", log |-> "none", nreq |-> 0, rows0 |-> contacts,
     prev |-> prev]

\* `return value` after printing `log`
Return(p, value, log) ==
    save' = [save EXCEPT ![p].pc = "done", ![p].ret = value, ![p].log = log]

\* if not phone or not email
Required(phone, email) == phone = Empty \/ email = Empty

\* the length test with the threshold of a ten-digit number
TooShort_Ten(phone) == Len(phone) < 10

\* if len(phone) < 12
TooShort(phone) == Len(phone) < MinPhoneLen

SaveValidate(p) ==
    /\ save[p].pc = "validate"
    /\ IF Required(save[p].phone, save[p].email)
       THEN Return(p, "False", "required")
       ELSE IF TooShort(save[p].phone)
       THEN Return(p, "False", "not_valid")
       ELSE save' = [save EXCEPT ![p].pc = "select"]
    /\ UNCHANGED <<contacts, scan>>

SaveSelect(p) ==
    /\ save[p].pc = "select"
    /\ IF CountVerified(contacts, save[p].email) > 0
       THEN Return(p, "False", "exists")
       ELSE save' = [save EXCEPT ![p].pc = "post"]
    /\ UNCHANGED <<contacts, scan>>

\* a response that reaches the INSERT: status 200 and a JSON object
Accepted(r) == r.status = HttpOk /\ r.body \in {"object", "replaced"}

\* is_replaced == "true"
IsReplaced(r) == r.body = "replaced"

\* the handling of the response with the status test left out
PostOutcome_AnyStatus(r) ==
    IF r = NetworkError THEN "request_error"
    ELSE IF r.body \notin {"object", "replaced"} THEN "unexpected"
    ELSE IF IsReplaced(r) THEN "update"
    ELSE "insert"

\* where the handling of the response leads: the next statement on the
\* table, or the message printed before save_contact falls off its end
PostOutcome(r) ==
    IF r = NetworkError THEN "request_error"  \* except RequestException
    ELSE IF r.status # HttpOk THEN "status_failed"
    ELSE IF ~Accepted(r) THEN "unexpected"    \* response_data unbound, or
                                              \* without .get: except Exception
    ELSE IF IsReplaced(r) THEN "update"
    ELSE "insert"

\* requests.post and the handling of what it returns, up to the first
\* statement on the table
SavePost(p) ==
    /\ save[p].pc = "post"
    /\ \E r \in Responses :
        LET sent == [save EXCEPT ![p].resp = r, ![p].nreq = @ + 1]
        IN  IF PostOutcome(r) \in {"update", "insert"}
            THEN save' = [sent EXCEPT ![p].pc = PostOutcome(r)]
            ELSE save' = [sent EXCEPT ![p].pc = "done", ![p].ret = "None",
                                      ![p].log = PostOutcome(r)]
    /\ UNCHANGED <<contacts, scan>>

\* UPDATE ... WHERE phone = ?; conn.commit()
SaveUpdate(p) ==
    /\ save[p].pc = "update"
    /\ contacts' = Demote(contacts, save[p].phone)
    /\ save' = [save EXCEPT ![p].pc = "insert"]
    /\ UNCHANGED scan

\* INSERT ...; conn.commit(); return True -- or IntegrityError, which the
\* inner `except Exception` catches: the function then returns None
SaveInsert(p) ==
    /\ save[p].pc = "insert"
    /\ IF UniqueViolation(contacts, save[p].email)
       THEN /\ Return(p, "None", "unexpected")
            /\ UNCHANGED contacts
       ELSE /\ contacts' = InsertRow(contacts, save[p].phone, save[p].email)
            /\ Return(p, "True", "saved")
    /\ UNCHANGED scan

SaveStep(p) ==
    \/ SaveValidate(p)
    \/ SaveSelect(p)
    \/ SavePost(p)
    \/ SaveUpdate(p)
    \/ SaveInsert(p)

-----------------------------------------------------------------------------
(* The store driven directly: one caller, any arguments *)

ScanOff == [pc |-> "off"]

StoreInit ==
    /\ contacts = <<>>
    /\ save = [p \in Procs |-> Idle]
    /\ scan = ScanOff

StoreCall ==
    /\ \A q \in Procs : save[q].pc = "idle"
    /\ \E phone \in Phones, email \in Emails :
        save' = [save EXCEPT ![1] = Frame(phone, email, save[1].prev)]
    /\ UNCHANGED <<contacts, scan>>

StoreReturn ==
    /\ save[1].pc = "done"
    /\ save' = [save EXCEPT ![1] =
                    IdleAfter(IF save[1].ret = "True"
                              THEN <<save[1].phone, save[1].email>>
                              ELSE NoPrev)]
    /\ UNCHANGED <<contacts, scan>>

\* update_verification_status(email, is_verified):
\* UPDATE contacts SET is_verified = ? WHERE email = ?
SetVerified(rows, email, flag) ==
    [i \in DOMAIN rows |->
        IF rows[i].email = email
        THEN [rows[i] EXCEPT !.is_verified = flag]
        ELSE rows[i]]

update_verification_status ==
    /\ \A q \in Procs : save[q].pc = "idle"
    /\ \E email \in RealEmails, flag \in BOOLEAN :
        contacts' = SetVerified(contacts, email, flag)
    /\ save' = [save EXCEPT ![1] = Idle]
    /\ UNCHANGED scan

StoreNext ==
    \/ StoreCall
    \/ SaveValidate(1)
    \/ SaveSelect(1)
    \/ SavePost(1)
    \/ SaveUpdate(1)
    \/ SaveInsert(1)
    \/ StoreReturn

SpecStore == StoreInit /\ [][StoreNext]_vars

\* the store with its other writer, update_verification_status, which the
\* scan loop never calls
ApiNext == StoreNext \/ update_verification_status

SpecStoreApi == StoreInit /\ [][ApiNext]_vars

\* the statements of save_contact run to their end; requests.post is called
\* without a timeout and returns when the service answers or the connection
\* fails, for which there is no bound
SpecStoreLive ==
    /\ SpecStore
    /\ WF_vars(SaveValidate(1))
    /\ WF_vars(SaveSelect(1))
    /\ WF_vars(SaveUpdate(1))
    /\ WF_vars(SaveInsert(1))

-----------------------------------------------------------------------------
(* init_database on the database file as earlier versions of the program
   may have left it.  The schema is kept in scan: whether the table exists,
   its columns in order, its UNIQUE constraint; the rows are in contacts. *)

MaxRuns == 3        \* runs of init_database on one file

ColId == "id"
ColPhone == "phone"
ColEmail == "email"
ColVerified == "is_verified"
ColCreated == "created_at"
ColChatName == "chat_name"

\* the columns of CREATE TABLE IF NOT EXISTS contacts (...)
CreatedColumns == <<ColId, ColPhone, ColEmail, ColVerified, ColCreated>>

\* the column lists of the tables the file may hold: that of the reduced
\* program, that of CREATE TABLE, and both with chat_name added
StoredColumns ==
    {<<ColId, ColPhone, ColEmail, ColCreated>>,
     CreatedColumns,
     <<ColId, ColPhone, ColEmail, ColCreated, ColChatName>>,
     Append(CreatedColumns, ColChatName)}

HasColumn(columns, column) == \E k \in DOMAIN columns : columns[k] = column

\* a stored row of a table with the columns (created_at is not kept)
StoredRow(columns, id, email, verified) ==
    [f \in {columns[k] : k \in DOMAIN columns} \ {ColCreated} |->
        CASE f = ColId -> id
          [] f = ColPhone -> PhoneOf(1)
          [] f = ColEmail -> email
          [] f = ColVerified -> verified
          [] f = ColChatName -> NULL]

\* the tables of at most two rows with the columns, with distinct emails
StoredRows(columns) ==
    LET flags == IF HasColumn(columns, ColVerified) THEN BOOLEAN ELSE {FALSE}
    IN  {<<>>}
        \cup {<<StoredRow(columns, 1, e, v)>> : e \in RealEmails, v \in flags}
        \cup {<<StoredRow(columns, 1, EmailOf(1), v1),
                StoredRow(columns, 2, EmailOf(2), v2)>> :
                    v1 \in flags, v2 \in flags}

\* the file before the first run: no table, or a table of an earlier version
InitDbInit ==
    /\ save = [p \in Procs |-> Idle]
    /\ \/ /\ contacts = <<>>
          /\ scan = [pc |-> "create", runs |-> 0, table |-> FALSE,
                     columns |-> <<>>, unique |-> "none", read |-> <<>>,
                     once |-> <<>>]
       \/ \E columns \in StoredColumns :
            /\ contacts \in StoredRows(columns)
            /\ scan = [pc |-> "create", runs |-> 0, table |-> TRUE,
                       columns |-> columns,
                       unique |-> IF HasColumn(columns, ColVerified)
                                  THEN "email" ELSE "phone, email",
                       read |-> <<>>, once |-> <<>>]

\* CREATE TABLE IF NOT EXISTS contacts (..., UNIQUE(email))
InitCreate ==
    /\ scan.pc = "create"
    /\ scan' = IF scan.table
               THEN [scan EXCEPT !.pc = "pragma"]
               ELSE [scan EXCEPT !.pc = "pragma", !.table = TRUE,
                                 !.columns = CreatedColumns,
                                 !.unique = "email"]
    /\ UNCHANGED <<contacts, save>>

\* PRAGMA table_info(contacts); columns = [column[1] for column in ...]
InitPragma ==
    /\ scan.pc = "pragma"
    /\ scan' = [scan EXCEPT !.pc = "is_verified", !.read = scan.columns]
    /\ UNCHANGED <<contacts, save>>

\* the test before an ALTER TABLE, always true
Missing_Unchecked(column, columns) == TRUE

\* if "is_verified" not in columns, if "chat_name" not in columns
Missing(column, columns) == ~HasColumn(columns, column)

\* ALTER TABLE contacts ADD COLUMN: the rows get the default value;
\* "duplicate column name" is raised if the table has the column
AddColumn(column, default, next) ==
    IF HasColumn(scan.columns, column)
    THEN /\ scan' = [scan EXCEPT !.pc = "failed"]
         /\ UNCHANGED contacts
    ELSE /\ scan' = [scan EXCEPT !.pc = next,
                                 !.columns = Append(@, column)]
         /\ contacts' = [i \in DOMAIN contacts |->
                            [f \in DOMAIN contacts[i] \cup {column} |->
                                IF f = column THEN default ELSE contacts[i][f]]]

\* if "is_verified" not in columns: ALTER TABLE ... ADD COLUMN is_verified
\* BOOLEAN DEFAULT FALSE
InitAddVerified ==
    /\ scan.pc = "is_verified"
    /\ IF Missing(ColVerified, scan.read)
       THEN AddColumn(ColVerified, FALSE, "chat_name")
       ELSE /\ scan' = [scan EXCEPT !.pc = "chat_name"]
            /\ UNCHANGED contacts
    /\ UNCHANGED save

\* if "chat_name" not in columns: ALTER TABLE ... ADD COLUMN chat_name TEXT
InitAddChatName ==
    /\ scan.pc = "chat_name"
    /\ IF Missing(ColChatName, scan.read)
       THEN AddColumn(ColChatName, NULL, "commit")
       ELSE /\ scan' = [scan EXCEPT !.pc = "commit"]
            /\ UNCHANGED contacts
    /\ UNCHANGED save

\* the schema of the file
Schema(sc) == [table |-> sc.table, columns |-> sc.columns, unique |-> sc.unique]

\* conn.commit(); conn.close(): the run has ended; once remembers the schema
\* the first run left
InitCommit ==
    /\ scan.pc = "commit"
    /\ scan' = [scan EXCEPT !.pc = "returned", !.runs = @ + 1,
                            !.once = IF scan.runs = 0 THEN <<Schema(scan)>>
                                     ELSE @]
    /\ UNCHANGED <<contacts, save>>

\* the program is started again
InitAgain ==
    /\ scan.pc = "returned"
    /\ scan.runs < MaxRuns
    /\ scan' = [scan EXCEPT !.pc = "create"]
    /\ UNCHANGED <<contacts, save>>

InitDbNext ==
    \/ InitCreate
    \/ InitPragma
    \/ InitAddVerified
    \/ InitAddChatName
    \/ InitCommit
    \/ InitAgain

SpecInitDb == InitDbInit /\ [][InitDbNext]_vars

-----------------------------------------------------------------------------
(* Two callers of save_contact on one database file.  Each statement on
   the table runs in its own transaction (the SELECT reads outside any,
   UPDATE and INSERT are each followed by conn.commit()), so the steps of
   the two calls interleave freely. *)

ConcCall ==
    /\ \A q \in Procs : save[q].pc = "idle"
    /\ \E ph1 \in Phones, em1 \in Emails, ph2 \in Phones, em2 \in Emails :
        save' = [q \in Procs |->
                    IF q = 1 THEN Frame(ph1, em1, NoPrev)
                             ELSE Frame(ph2, em2, NoPrev)]
    /\ UNCHANGED <<contacts, scan>>

ConcReturn ==
    /\ \A q \in Procs : save[q].pc = "done"
    /\ save' = [q \in Procs |-> Idle]
    /\ UNCHANGED <<contacts, scan>>

ConcNext ==
    \/ ConcCall
    \/ \E p \in Procs : SaveStep(p)
    \/ ConcReturn

SpecConc == StoreInit /\ [][ConcNext]_vars

\* save_contact run from call to return with nothing in between: the table
\* it leaves and the value it returns, for the response r to its request
SaveSeq(rows, phone, email, r) ==
    IF Required(phone, email) \/ TooShort(phone)
        \/ CountVerified(rows, email) > 0
    THEN [rows |-> rows, ret |-> "False"]
    ELSE IF ~Accepted(r)
    THEN [rows |-> rows, ret |-> "None"]
    ELSE LET updated == IF IsReplaced(r) THEN Demote(rows, phone) ELSE rows
         IN  IF UniqueViolation(updated, email)
             THEN [rows |-> updated, ret |-> "None"]
             ELSE [rows |-> InsertRow(updated, phone, email), ret |-> "True"]

-----------------------------------------------------------------------------
(* Text functions of the crawler *)

IsSpace(c) == c = " "

\* text.strip()
RECURSIVE LStrip(_)
LStrip(t) == IF t # <<>> /\ IsSpace(Head(t)) THEN LStrip(Tail(t)) ELSE t

RECURSIVE RStrip(_)
RStrip(t) ==
    IF t # <<>> /\ IsSpace(t[Len(t)]) THEN RStrip(SubSeq(t, 1, Len(t) - 1)) ELSE t

Strip(t) == RStrip(LStrip(t))

\* pattern in text
Contains(t, pattern) ==
    \E k \in 1..(Len(t) - Len(pattern) + 1) :
        SubSeq(t, k, k + Len(pattern) - 1) = pattern

\* the characters re.sub(r"[^\d\s\-\(\)\+]", "", phone) keeps
IsPhoneChar(c) ==
    \/ c \in {Digits[k] : k \in DOMAIN Digits}
    \/ IsSpace(c)
    \/ c \in {"-", "(", ")", "+"}

clean_phone_number(phone_text) ==
    IF phone_text = Empty
    THEN Empty
    ELSE Strip(SelectSeq(Strip(phone_text), IsPhoneChar))

-----------------------------------------------------------------------------
(* The identifier extractor: re.search with the patterns of
   extract_email_from_text and extract_phone_from_text.  A match is the
   text re.search returns; None is the empty text (no pattern matches the
   empty text). *)

Max(S) == CHOOSE n \in S : \A m \in S : m <= n

Min(S) == CHOOSE n \in S : \A m \in S : n <= m

Least(a, b) == IF a <= b THEN a ELSE b

\* \d
DigitChars == {Digits[k] : k \in DOMAIN Digits}

\* \s (of the white space only the blank occurs in the texts of the model)
SpaceChars == {" "}

\* [\s\-]
SepChars == SpaceChars \cup {"-"}

\* [a-zA-Z]
LetterChars ==
    {"a", "b", "c", "d", "e", "f", "g", "h", "i", "j", "k", "l", "m",
     "n", "o", "p", "q", "r", "s", "t", "u", "v", "w", "x", "y", "z",
     "A", "B", "C", "D", "E", "F", "G", "H", "I", "J", "K", "L", "M",
     "N", "O", "P", "Q", "R", "S", "T", "U", "V", "W", "X", "Y", "Z"}

\* [a-zA-Z0-9._%+-]
LocalChars == LetterChars \cup DigitChars \cup {".", "_", "%", "+", "-"}

\* [a-zA-Z0-9.-]
DomainChars == LetterChars \cup DigitChars \cup {".", "-"}

\* the length of the longest run of characters of the class from position k
RunLen(class, t, k) ==
    Max({n \in 0..(Len(t) + 1 - k) : \A j \in k..(k + n - 1) : t[j] \in class})

\* \d{n} at position k
DigitsAt(t, k, n) ==
    k + n - 1 <= Len(t) /\ \A j \in k..(k + n - 1) : t[j] \in DigitChars

\* the position after an optional character of the class at position q (the
\* patterns go on with a digit, so the option is taken whenever it can be)
SkipOpt(class, t, q) == IF q <= Len(t) /\ t[q] \in class THEN q + 1 ELSE q

\* \+\d{1,4}[\s\-]?\d{6,14} at position k: the last position of the match,
\* 0 if there is none.  The prefix \d{1,4} is greedy and gives digits back
\* until the rest matches.
IntlAt(t, k) ==
    IF k > Len(t) \/ t[k] # "+"
    THEN 0
    ELSE LET rest(a) ==
                 LET q == SkipOpt(SepChars, t, k + 1 + a)
                     b == RunLen(DigitChars, t, q)
                 IN  IF b >= 6 THEN q - 1 + Least(b, 14) ELSE 0
             fits == {a \in 1..Least(4, RunLen(DigitChars, t, k + 1)) : rest(a) # 0}
         IN  IF fits = {} THEN 0 ELSE rest(Max(fits))

\* \(\d{3}\)\s?\d{3}[\s\-]?\d{4} at position k
ParenAt(t, k) ==
    IF k + 4 <= Len(t) /\ t[k] = "(" /\ DigitsAt(t, k + 1, 3) /\ t[k + 4] = ")"
    THEN LET q1 == SkipOpt(SpaceChars, t, k + 5)
             q2 == SkipOpt(SepChars, t, q1 + 3)
         IN  IF DigitsAt(t, q1, 3) /\ DigitsAt(t, q2, 4) THEN q2 + 3 ELSE 0
    ELSE 0

\* \d{3}[\s\-]?\d{3}[\s\-]?\d{4} at position k
LocalAt(t, k) ==
    IF DigitsAt(t, k, 3)
    THEN LET q1 == SkipOpt(SepChars, t, k + 3)
             q2 == SkipOpt(SepChars, t, q1 + 3)
         IN  IF DigitsAt(t, q1, 3) /\ DigitsAt(t, q2, 4) THEN q2 + 3 ELSE 0
    ELSE 0

\* \d{10,15} at position k
BareAt(t, k) ==
    IF RunLen(DigitChars, t, k) >= 10
    THEN k - 1 + Least(RunLen(DigitChars, t, k), 15)
    ELSE 0

\* [a-zA-Z0-9._%+-]+@[a-zA-Z0-9.-]+\.[a-zA-Z]{2,} at position k: the local
\* part runs up to the "@", the domain is cut at its last "." that at least
\* two letters follow, and the letters after it are all taken
EmailAt(t, k) ==
    LET l == RunLen(LocalChars, t, k)
        at == k + l
        d == RunLen(DomainChars, t, at + 1)
        dots == {p \in (at + 2)..(at + d) :
                    t[p] = "." /\ RunLen(LetterChars, t, p + 1) >= 2}
    IN  IF l >= 1 /\ at <= Len(t) /\ t[at] = "@" /\ dots # {}
        THEN Max(dots) + RunLen(LetterChars, t, Max(dots) + 1)
        ELSE 0

\* the patterns list of extract_phone_from_text, in its order
PhonePatterns == <<"international", "parenthesized", "dashed", "bare">>

PatternAt(name, t, k) ==
    CASE name = "international" -> IntlAt(t, k)
      [] name = "parenthesized" -> ParenAt(t, k)
      [] name = "dashed" -> LocalAt(t, k)
      [] name = "bare" -> BareAt(t, k)
      [] name = "email" -> EmailAt(t, k)

\* re.search(pattern, text): the match at the leftmost position that has one
Search(name, t) ==
    LET starts == {k \in 1..Len(t) : PatternAt(name, t, k) # 0}
    IN  IF starts = {}
        THEN Empty
        ELSE SubSeq(t, Min(starts), PatternAt(name, t, Min(starts)))

extract_email_from_text(text) == Search("email", text)

\* the loop over the patterns with the list sorted by digit count, the bare
\* run first
extract_phone_from_text_BareFirst(text) ==
    LET order == <<"bare", "dashed", "parenthesized", "international">>
        hits == {i \in DOMAIN order : Search(order[i], text) # Empty}
    IN  IF hits = {} THEN Empty ELSE Search(order[Min(hits)], text)

\* for pattern in patterns: the match of the first pattern that has one
extract_phone_from_text(text) ==
    LET hits == {i \in DOMAIN PhonePatterns : Search(PhonePatterns[i], text) # Empty}
    IN  IF hits = {} THEN Empty ELSE Search(PhonePatterns[Min(hits)], text)

-----------------------------------------------------------------------------
(* The extractor applied to texts: the texts are made of a few pieces put
   one after the other *)

\* the sequences of at most n elements of S
RECURSIVE SeqsUpTo(_, _)
SeqsUpTo(S, n) ==
    IF n = 0 THEN {<<>>}
    ELSE SeqsUpTo(S, n - 1)
            \cup {Append(q, x) : q \in {r \in SeqsUpTo(S, n - 1) : Len(r) = n - 1},
                                 x \in S}

ParenNumber ==
    <<"(", "4", "1", "5", ")", " ", "5", "5", "5", "-", "0", "1", "9", "8">>

TenDigits == <<"4", "1", "5", "5", "5", "5", "0", "1", "9", "8">>

DashedNumber ==
    <<"4", "1", "5", "-", "5", "5", "5", "-", "0", "1", "9", "8">>

IntlNumber == PhoneOf(1)

SeventeenDigits ==
    <<"1", "2", "3", "4", "5", "6", "7", "8", "9", "0", "1", "2", "3", "4",
      "5", "6", "7">>

PlusOne == <<"+", "1", " ">>

CallWord == <<"c", "a", "l", "l", " ">>

NowWord == <<" ", "n", "o", "w">>

OrWord == <<" ", "o", "r", " ">>

EmailJohn == <<"j", "o", "h", "n", "@", "e", "x", ".", "c", "o", "m">>

EmailLong ==
    <<"a", ".", "b", "+", "c", "@", "e", "x", "a", "m", "p", "l", "e", ".",
      "c", "o", ".", "u", "k">>

\* "call +1 415-555-0198 now"
CallText == CallWord \o PlusOne \o DashedNumber \o NowWord

Pieces ==
    {ParenNumber, TenDigits, DashedNumber, IntlNumber, SeventeenDigits,
     PlusOne, CallWord, NowWord, OrWord, EmailJohn, EmailLong, CallText}

MaxPieces == 2      \* pieces of a text at most

\* the concatenation of the texts of a sequence
RECURSIVE Concat(_)
Concat(parts) == IF parts = <<>> THEN <<>> ELSE Head(parts) \o Concat(Tail(parts))

Texts == {Concat(parts) : parts \in SeqsUpTo(Pieces, MaxPieces)}

ExtractInit ==
    /\ contacts = <<>>
    /\ save = [p \in Procs |-> Idle]
    /\ \E text \in Texts :
        scan = [pc |-> "text", text |-> text, email |-> Empty, phone |-> Empty]

\* the two extractors applied to the text
ExtractIds ==
    /\ scan.pc = "text"
    /\ scan' = [scan EXCEPT !.pc = "extracted",
                            !.email = extract_email_from_text(scan.text),
                            !.phone = extract_phone_from_text(scan.text)]
    /\ UNCHANGED <<contacts, save>>

SpecExtract == ExtractInit /\ [][ExtractIds]_vars

-----------------------------------------------------------------------------
(* The chat list as the document shows it *)

Unknown == <<"U", "n", "k", "n", "o", "w", "n">>

NameJohn ==
    <<"J", "o", "h", "n", ",", " ", "+", "1", " ", "5", "5", "5", " ",
      "2", "2", "3", "1">>

NameAlice == <<"A", "l", "i", "c", "e">>

\* John's name cleans to a phone of 11 characters, Alice's to none
Names == {NameJohn, NameAlice}

TimeLine == <<"9", ":", "4", "1", " ", "A", "M">>

\* a row of the list: the lines of its visible text, the text of the first
\* title sub-element that has any (Empty if none), and whether the handle
\* is stale when its text is read
PlainRow(name) == [lines |-> <<name>>, title |-> Empty, stale |-> FALSE]

RowUniverse ==
    {PlainRow(n) : n \in Names}
        \cup {[lines |-> <<TimeLine, NameAlice>>, title |-> Empty, stale |-> FALSE],
              [lines |-> <<Unknown>>, title |-> Empty, stale |-> FALSE],
              [lines |-> <<NameJohn>>, title |-> Empty, stale |-> TRUE]}

MaxVisible == 2     \* rows one discovery returns at most

\* what get_current_visible_chats may return
VisibleLists == SeqsUpTo(RowUniverse, MaxVisible)

\* ":" in chat_name and ("AM" in chat_name or "PM" in chat_name)
LooksLikeTime(t) ==
    Contains(t, <<":">>) /\ (Contains(t, <<"A", "M">>) \/ Contains(t, <<"P", "M">>))

NoData == [ok |-> FALSE, chat_name |-> Empty]

\* extract_chat_data: None for a stale row, else the chat name (the preview
\* text, which nothing reads, is left out)
extract_chat_data(row) ==
    IF row.stale
    THEN NoData
    ELSE LET first == IF row.lines = <<>> THEN Unknown ELSE Strip(row.lines[1])
             byText == IF row.lines # <<>> /\ LooksLikeTime(first)
                          /\ Len(row.lines) > 1
                       THEN Strip(row.lines[2])
                       ELSE first
             name == IF (byText = Unknown \/ byText = Empty) /\ row.title # Empty
                     THEN row.title
                     ELSE byText
         IN  [ok |-> TRUE, chat_name |-> name]

NumChats == 27      \* rows of the long chat list
LongChats == 104    \* rows of the chat list scrolled one row at a time
PageRows == 33      \* rows that list loads at a time

\* the long chat list: "Chat 001", "Chat 002", ... from top to bottom
ListName(k) ==
    <<"C", "h", "a", "t", " ", Digit(k \div 100), Digit(k \div 10), Digit(k)>>

ListPositions == 1..Max({NumChats, LongChats})

ListRows == {PlainRow(ListName(k)) : k \in ListPositions}

\* the position of a chat of the long list
ListIndex(name) == CHOOSE k \in ListPositions : ListName(k) = name

\* the lengths of the long list
ListLengths == {n \in 1..NumChats : n = NumChats \/ n % 9 = 0}

\* what get_current_visible_chats may return while a list of len rows is
\* scrolled: up to MaxVisible consecutive rows that overlap the rows seen by
\* two at most, with a row not yet seen as long as one is left
ListWindows(processed, len) ==
    LET seen == Cardinality(processed)
        tops == {a \in (seen - 1)..(seen + 1) : a >= 1 /\ a <= len}
    IN  UNION {{[j \in 1..n |-> PlainRow(ListName(k + j - 1))] :
                    n \in {b \in 0..MaxVisible :
                            /\ k + b - 1 <= len
                            /\ seen < len => k + b - 1 > seen}} :
               k \in tops}

\* what get_current_visible_chats may return while a list of len rows is
\* scrolled one row at a time: the next row not yet seen, or no row at all
\* at the end of the list and while the next rows are loaded
LongWindows(processed, len) ==
    LET seen == Cardinality(processed)
    IN  (IF seen < len THEN {<<PlainRow(ListName(seen + 1))>>} ELSE {})
            \cup (IF seen >= len \/ seen % PageRows = 0 THEN {<<>>} ELSE {})

\* rows without a usable name: no text at all, and a time, a blank line and
\* a preview; the same with a title sub-element that has text
BlankRow ==
    [lines |-> <<TimeLine, <<" ">>, <<"h", "e", "l", "l", "o">>>>,
     title |-> Empty, stale |-> FALSE]

NoTextRow == [lines |-> <<>>, title |-> Empty, stale |-> FALSE]

DiscoverRows ==
    RowUniverse \cup {BlankRow, NoTextRow,
                      [BlankRow EXCEPT !.title = NameAlice],
                      [NoTextRow EXCEPT !.title = NameAlice]}

\* extract_chat_data of every row the document may show
ChatData ==
    [row \in DiscoverRows \cup ListRows |-> extract_chat_data(row)]

-----------------------------------------------------------------------------
(* The activation of a chat: click_chat_element on the handle captured at
   discovery, click_chat_by_name as its fallback *)

MaxAttempts == 2        \* click_chat_by_name(driver, chat_name, max_attempts=2)

\* what the captured handle does: it is clicked, is_displayed() is False,
\* is_displayed() raises StaleElementReferenceException, execute_script
\* raises, click() raises StaleElementReferenceException, click() raises
\* another exception
Handles ==
    {"clicked", "hidden", "stale", "script_raises", "click_stale",
     "click_raises"}

\* what one attempt of the lookup by name does: an element is found and
\* clicked, no XPath finds an element, execute_script raises, click() raises
Lookups == {"clicked", "not_found", "script_raises", "click_raises"}

ClickInit ==
    /\ contacts = <<>>
    /\ save = [p \in Procs |-> Idle]
    /\ \E handle \in Handles, lookups \in [1..MaxAttempts -> Lookups] :
        scan = [pc |-> "handle", handle |-> handle, lookups |-> lookups,
                attempt |-> 0, ret |-> "unset"]

\* click_chat_element up to its return or its call of click_chat_by_name
click_chat_element ==
    /\ scan.pc = "handle"
    /\ scan' = IF scan.handle = "clicked"
               THEN [scan EXCEPT !.pc = "returned", !.ret = "True"]
               ELSE IF scan.handle = "hidden"
               THEN [scan EXCEPT !.pc = "returned", !.ret = "False"]
               ELSE [scan EXCEPT !.pc = "by_name"]
    /\ UNCHANGED <<contacts, save>>

\* one turn of the loop of click_chat_by_name, or its return False
click_chat_by_name ==
    /\ scan.pc = "by_name"
    /\ scan' = IF scan.attempt >= MaxAttempts
               THEN [scan EXCEPT !.pc = "returned", !.ret = "False"]
               ELSE IF scan.lookups[scan.attempt + 1] = "clicked"
               THEN [scan EXCEPT !.pc = "returned", !.ret = "True",
                                 !.attempt = @ + 1]
               ELSE [scan EXCEPT !.attempt = @ + 1]
    /\ UNCHANGED <<contacts, save>>

ClickNext ==
    \/ click_chat_element
    \/ click_chat_by_name

SpecClick == ClickInit /\ [][ClickNext]_vars

-----------------------------------------------------------------------------
(* The messages of an opened chat *)

WindowSize == 10        \* get_last_messages_from_open_chat(driver, num_messages=10)
MeaningfulLen == 2      \* if text and len(text) > 2

TextHi == <<"h", "i">>

TextOk == <<"o", "k">>

TextMailJohn ==
    <<"e", "m", "a", "i", "l", " ", "m", "e", " ", "j", "o", "h", "n", "@",
      "e", "x", ".", "c", "o", "m">>

\* a message element of the document: its text and whether the class of its
\* message ancestor has one of the marks of an outgoing message
Element(text, out) == [text |-> text, out |-> out]

ElementUniverse ==
    {Element(TextHi, FALSE), Element(TextOk, TRUE),
     Element(TextMailJohn, FALSE), Element(EmailOf(1), TRUE),
     Element(PhoneOf(1), FALSE), Element(CallWord \o PhoneOf(2), TRUE),
     Element(<<" ">>, FALSE)}

MaxMessages == 3        \* message elements of an opened chat at most

\* the message elements of an opened chat, oldest first
Documents == SeqsUpTo(ElementUniverse, MaxMessages)

\* the bodies the messages of the documents can have, and what the two
\* extractors find in each
MessageBodies == {Strip(el.text) : el \in ElementUniverse}

EmailIn == [body \in MessageBodies |-> extract_email_from_text(body)]

PhoneIn == [body \in MessageBodies |-> extract_phone_from_text(body)]

\* text = msg.text.strip(); if text and len(text) > 2
IsTextMessage(el) ==
    Strip(el.text) # Empty /\ Len(Strip(el.text)) > MeaningfulLen

\* contains(text(), '@') or contains(text(), '+') or string-length(text()) > 10
\* (the query is put to the whole page; the model puts it to the message
\* elements)
InFallback(el) ==
    Contains(el.text, <<"@">>) \/ Contains(el.text, <<"+">>) \/ Len(el.text) > 10

\* seq[-n:] if len(seq) >= n else seq
LastN(seq, n) ==
    IF Len(seq) >= n THEN SubSeq(seq, Len(seq) + 1 - n, Len(seq)) ELSE seq

Reverse(seq) == [k \in 1..Len(seq) |-> seq[Len(seq) + 1 - k]]

HasBody(msg) == msg.body # Empty

\* get_last_messages_from_open_chat: the last messages, newest first, each
\* with its body, direction and position (1 = most recent)
get_last_messages_from_open_chat(elements) ==
    LET text_messages == SelectSeq(elements, IsTextMessage)
        messages == IF text_messages # <<>>
                    THEN text_messages
                    ELSE LastN(SelectSeq(elements, InFallback), WindowSize)
        newest_first == Reverse(LastN(messages, WindowSize))
    IN  SelectSeq([i \in 1..Len(newest_first) |->
                        [body |-> Strip(newest_first[i].text),
                         direction |-> IF newest_first[i].out THEN "out" ELSE "in",
                         position |-> i]],
                  HasBody)

\* email_result and phone_result: None, or the value found with the position
\* and direction of its message (found_in_message, which is only printed, is
\* left out)
NoResult ==
    [found |-> FALSE, value |-> Empty, message_position |-> 0, direction |-> "none"]

ResultOf(value, msg) ==
    [found |-> TRUE, value |-> value, message_position |-> msg.position,
     direction |-> msg.direction]

\* the loop of find_email_and_phone_in_messages with each result overwritten
\* by every later message that has one
RECURSIVE FindLoop_LastWins(_, _, _)
FindLoop_LastWins(messages, email_result, phone_result) ==
    IF messages = <<>>
    THEN [email |-> email_result, phone |-> phone_result]
    ELSE LET msg == Head(messages)
             email == EmailIn[msg.body]
             phone == PhoneIn[msg.body]
         IN  FindLoop_LastWins(Tail(messages),
                IF email # Empty THEN ResultOf(email, msg) ELSE email_result,
                IF phone # Empty THEN ResultOf(phone, msg) ELSE phone_result)

\* the loop of find_email_and_phone_in_messages from the results so far
RECURSIVE FindLoop(_, _, _)
FindLoop(messages, email_result, phone_result) ==
    IF messages = <<>>
    THEN [email |-> email_result, phone |-> phone_result]
    ELSE LET msg == Head(messages)
             email == EmailIn[msg.body]
             phone == PhoneIn[msg.body]
             email_next == IF ~email_result.found /\ email # Empty
                           THEN ResultOf(email, msg) ELSE email_result
             phone_next == IF ~phone_result.found /\ phone # Empty
                           THEN ResultOf(phone, msg) ELSE phone_result
         IN  IF email_next.found /\ phone_next.found
             THEN [email |-> email_next, phone |-> phone_next]      \* break
             ELSE FindLoop(Tail(messages), email_next, phone_next)

find_email_and_phone_in_messages(messages) == FindLoop(messages, NoResult, NoResult)

\* the resolution of whatsapp_saver.py: the phone is always the cleaned chat
\* name
Resolve_FromName(chat_name, found) ==
    [phone |-> clean_phone_number(chat_name),
     email |-> IF found.email.found THEN found.email.value ELSE Empty]

\* the phone and the email of a chat from what the search of its messages
\* found: the phone of a message, or else the cleaned chat name; the email of
\* a message
Resolve(chat_name, found) ==
    [phone |-> IF found.phone.found
               THEN clean_phone_number(found.phone.value)
               ELSE clean_phone_number(chat_name),
     email |-> IF found.email.found THEN found.email.value ELSE Empty]

-----------------------------------------------------------------------------
(* One chat taken through the body of the for loop of
   process_chats_with_scrolling, from the opened chat to the return of
   save_contact, on an empty table *)

NameAmy == <<"a", "m", "y", "@", "e", "x", ".", "c", "o", "m">>

\* the chat names of the last section and one that is an e-mail address
ChatNames == Names \cup {NameAmy}

NothingFound == [email |-> NoResult, phone |-> NoResult]

Unresolved == [phone |-> Empty, email |-> Empty]

ChatInit ==
    /\ contacts = <<>>
    /\ save = [p \in Procs |-> Idle]
    /\ \E chat_name \in ChatNames, elements \in Documents :
        scan = [pc |-> "opened", chat_name |-> chat_name, elements |-> elements,
                messages |-> <<>>, found |-> NothingFound,
                resolved |-> Unresolved, counted |-> FALSE]

\* messages = get_last_messages_from_open_chat(driver, num_messages=10)
ChatRead ==
    /\ scan.pc = "opened"
    /\ LET messages == get_last_messages_from_open_chat(scan.elements)
       IN  scan' = [scan EXCEPT !.messages = messages,
                        !.pc = IF messages = <<>> THEN "no_messages" ELSE "read"]
    /\ UNCHANGED <<contacts, save>>

\* email_result, phone_result = find_email_and_phone_in_messages(messages)
ChatFind ==
    /\ scan.pc = "read"
    /\ scan' = [scan EXCEPT !.pc = "found",
                    !.found = find_email_and_phone_in_messages(scan.messages)]
    /\ UNCHANGED <<contacts, save>>

\* the choice of phone and email, with save_contact called for every email
ChatResolve_EmailOnly ==
    /\ scan.pc = "found"
    /\ \E resolved \in {Resolve(scan.chat_name, scan.found)} :
        IF resolved.email # Empty
        THEN /\ scan' = [scan EXCEPT !.resolved = resolved, !.pc = "saving"]
             /\ save' = [save EXCEPT ![1] =
                            Frame(resolved.phone, resolved.email, NoPrev)]
        ELSE /\ scan' = [scan EXCEPT !.resolved = resolved, !.pc = "missing",
                                     !.counted = TRUE]
             /\ UNCHANGED save
    /\ UNCHANGED contacts

\* the choice of phone and email; save_contact is called if both are there
ChatResolve ==
    /\ scan.pc = "found"
    /\ \E resolved \in {Resolve(scan.chat_name, scan.found)} :
        IF resolved.phone # Empty /\ resolved.email # Empty
        THEN /\ scan' = [scan EXCEPT !.resolved = resolved, !.pc = "saving"]
             /\ save' = [save EXCEPT ![1] =
                            Frame(resolved.phone, resolved.email, NoPrev)]
        ELSE /\ scan' = [scan EXCEPT !.resolved = resolved, !.pc = "missing",
                                     !.counted = TRUE]
             /\ UNCHANGED save
    /\ UNCHANGED contacts

\* save_contact has returned: total_processed += 1
ChatCounted ==
    /\ scan.pc = "saving"
    /\ save[1].pc = "done"
    /\ scan' = [scan EXCEPT !.pc = IF save[1].ret = "True" THEN "saved" ELSE "not_saved",
                            !.counted = TRUE]
    /\ UNCHANGED <<contacts, save>>

ChatNext ==
    \/ ChatRead
    \/ ChatFind
    \/ ChatResolve
    \/ SaveValidate(1)
    \/ SaveSelect(1)
    \/ SavePost(1)
    \/ SaveUpdate(1)
    \/ SaveInsert(1)
    \/ ChatCounted

SpecChat == ChatInit /\ [][ChatNext]_vars

-----------------------------------------------------------------------------
(* process_chats_with_scrolling and the loop of main *)

StreakLimit == 3        \* while no_new_chats_count < 3
Ceiling == 20           \* if total_processed >= 20: break
BatchLimit == 100       \* if batch_count < 100

\* processed_chats.add(chat_name), with the add forgotten
MarkProcessed_Forgotten(processed, name) == processed

\* processed_chats.add(chat_name)
MarkProcessed(processed, name) == processed \cup {name}

\* the loop over visible_chats: the new chats of the batch in order, the
\* processed set, and the names passed over as already processed
RECURSIVE Discover(_, _, _, _)
Discover(visible, batch, processed, skipped) ==
    IF visible = <<>>
    THEN [batch |-> batch, processed |-> processed, skipped |-> skipped]
    ELSE LET chat_data == ChatData[Head(visible)]
         IN  IF chat_data.ok /\ chat_data.chat_name # Unknown
             THEN IF chat_data.chat_name \notin processed
                  THEN Discover(Tail(visible), Append(batch, chat_data.chat_name),
                                MarkProcessed(processed, chat_data.chat_name),
                                skipped)
                  ELSE Discover(Tail(visible), batch, processed,
                                skipped \cup {chat_data.chat_name})
             ELSE Discover(Tail(visible), batch, processed, skipped)

\* no_new_chats_count after a batch, never reset
NextStreak_NoReset(count, new_chats_found) ==
    IF new_chats_found = 0 THEN count + 1 ELSE count

\* no_new_chats_count after a batch
NextStreak(count, new_chats_found) ==
    IF new_chats_found = 0 THEN count + 1 ELSE 0

\* the last three batches at most, for the claims: "new" for a batch with
\* new names, "old" for one whose rows gave none, "empty" for one without
\* visible rows
Remember(recent, rows, new) ==
    LET kind == IF new > 0 THEN "new" ELSE IF rows > 0 THEN "old" ELSE "empty"
        all == Append(recent, kind)
    IN  IF Len(all) > 3 THEN Tail(all) ELSE all

\* the locals of process_chats_with_scrolling; document is what the page
\* shows ("any" rows in any order, or a "list" or a "long" list of so many
\* rows, scrolled through); opened, recent,
\* skipped, why, earlier, sigint and in_flight record the run for the claims:
\* the names click_chat_element was called for, the last batches, the names
\* the last batch passed over as processed, why the scan ended, the name an
\* earlier scan opened first, whether an interrupt was swallowed and how many
\* chats were opened or being opened when it came
ScanLocals ==
    [pc |-> "loop", processed_chats |-> {}, total_processed |-> 0,
     total_saved |-> 0, batch_count |-> 0, no_new_chats_count |-> 0,
     current_batch_chats |-> <<>>, i |-> 0, document |-> "any", rows |-> 0,
     opened |-> <<>>, recent |-> <<>>, skipped |-> {}, why |-> "running",
     earlier |-> Empty, sigint |-> "none", in_flight |-> 0]

ScanInit ==
    /\ contacts = <<>>
    /\ save = [p \in Procs |-> Idle]
    /\ scan = [ScanLocals EXCEPT !.pc = "start"]

\* the locals at the entry of a scan, with the processed set of the scan
\* before kept
StartLocals_KeepProcessed(sc) ==
    [ScanLocals EXCEPT
        !.processed_chats = sc.processed_chats,
        !.document = sc.document, !.rows = sc.rows,
        !.earlier = IF sc.opened # <<>> THEN sc.opened[1] ELSE sc.earlier]

\* the locals at the entry of a scan: processed_chats = set(), the counters 0
StartLocals(sc) ==
    [ScanLocals EXCEPT
        !.document = sc.document, !.rows = sc.rows,
        !.earlier = IF sc.opened # <<>> THEN sc.opened[1] ELSE sc.earlier]

\* main calls process_chats_with_scrolling: get_chat_container, or return
\* 0, 0, or the script on the container raises and main ends
ScanStart ==
    /\ scan.pc = "start"
    /\ \/ scan' = StartLocals(scan)
       \/ scan' = [StartLocals(scan) EXCEPT !.pc = "sleep",
                                            !.why = "no_container"]
       \/ scan' = [StartLocals(scan) EXCEPT !.pc = "stopped", !.why = "error"]
    /\ UNCHANGED <<contacts, save>>

\* what get_current_visible_chats may return in the batch
Visible(sc) ==
    IF sc.document = "list" THEN ListWindows(sc.processed_chats, sc.rows)
    ELSE IF sc.document = "long" THEN LongWindows(sc.processed_chats, sc.rows)
    ELSE VisibleLists

\* one turn of the while loop up to the loop over current_batch_chats
ScanBatch ==
    /\ scan.pc = "loop"
    /\ scan.no_new_chats_count < StreakLimit
    /\ scan.total_processed < Ceiling
    /\ \E d \in {[found |-> Discover(visible_chats, <<>>, scan.processed_chats, {}),
                   rows |-> Len(visible_chats)] : visible_chats \in Visible(scan)} :
        LET new_chats_found == Len(d.found.batch)
            counted == [scan EXCEPT
                !.batch_count = @ + 1,
                !.processed_chats = d.found.processed,
                !.no_new_chats_count = NextStreak(@, new_chats_found),
                !.recent = Remember(@, d.rows, new_chats_found),
                !.skipped = d.found.skipped]
        IN  scan' = IF new_chats_found = 0
                    THEN counted
                    ELSE [counted EXCEPT !.pc = "chat",
                                         !.current_batch_chats = d.found.batch,
                                         !.i = 1]
    /\ UNCHANGED <<contacts, save>>

\* the while loop ends: its condition fails, or the ceiling breaks it
ScanEnd ==
    /\ scan.pc = "loop"
    /\ scan.no_new_chats_count >= StreakLimit \/ scan.total_processed >= Ceiling
    /\ scan' = [scan EXCEPT
            !.pc = "sleep",
            !.why = IF scan.no_new_chats_count >= StreakLimit
                    THEN "streak" ELSE "ceiling"]
    /\ UNCHANGED <<contacts, save>>

\* the next chat of the batch, with a chat that was not counted ending the
\* batch
AfterChat_StopOnFailure(sc, counted) ==
    LET n == IF counted THEN sc.total_processed + 1 ELSE sc.total_processed
        next == [sc EXCEPT !.total_processed = n]
    IN  IF ~counted \/ n >= Ceiling \/ sc.i >= Len(sc.current_batch_chats)
        THEN [next EXCEPT !.pc = "scroll"]
        ELSE [next EXCEPT !.pc = "chat", !.i = sc.i + 1]

\* the next chat of the batch, with every chat counted as processed
AfterChat_CountAll(sc, counted) ==
    LET n == sc.total_processed + 1
        next == [sc EXCEPT !.total_processed = n]
    IN  IF n >= Ceiling \/ sc.i >= Len(sc.current_batch_chats)
        THEN [next EXCEPT !.pc = "scroll"]
        ELSE [next EXCEPT !.pc = "chat", !.i = sc.i + 1]

\* the next chat of the batch, without the test of the ceiling
AfterChat_NoBreak(sc, counted) ==
    LET n == IF counted THEN sc.total_processed + 1 ELSE sc.total_processed
        next == [sc EXCEPT !.total_processed = n]
    IN  IF sc.i >= Len(sc.current_batch_chats)
        THEN [next EXCEPT !.pc = "scroll"]
        ELSE [next EXCEPT !.pc = "chat", !.i = sc.i + 1]

\* the next chat of the batch, or the end of the for loop
AfterChat(sc, counted) ==
    LET n == IF counted THEN sc.total_processed + 1 ELSE sc.total_processed
        next == [sc EXCEPT !.total_processed = n]
    IN  IF (counted /\ n >= Ceiling) \/ sc.i >= Len(sc.current_batch_chats)
        THEN [next EXCEPT !.pc = "scroll"]
        ELSE [next EXCEPT !.pc = "chat", !.i = sc.i + 1]

\* the message elements of the chats the scan opens
ScanElements ==
    {Element(EmailOf(1), FALSE), Element(PhoneOf(1), TRUE),
     Element(TextHi, FALSE)}

ScanDocuments == SeqsUpTo(ScanElements, 2)

\* what find_email_and_phone_in_messages returns for the chats that have
\* messages
Findings ==
    {find_email_and_phone_in_messages(get_last_messages_from_open_chat(els)) :
        els \in {d \in ScanDocuments :
                    get_last_messages_from_open_chat(d) # <<>>}}

\* a chat of the long list: every ninth cannot be clicked, every ninth
\* shows no message, every fourth of the others holds an email and a phone
ListBehaviour(k) ==
    IF k % 9 = 3 THEN "click_fails"
    ELSE IF k % 9 = 5 THEN "no_messages"
    ELSE "messages"

\* a chat of the list scrolled one row at a time: one in 48 can be clicked
\* and holds an email and a phone, the others cannot be clicked
LongBehaviour(k) == IF k % 48 = 0 THEN "messages" ELSE "click_fails"

ListFound ==
    [k \in ListPositions |->
        find_email_and_phone_in_messages(get_last_messages_from_open_chat(
            IF k % 4 = 0
            THEN <<Element(PhoneOf(1), TRUE), Element(EmailOf(1), FALSE)>>
            ELSE <<Element(TextOk, TRUE)>>))]

\* how the opening of the chat may go
Behaviours(sc, chat_name) ==
    IF sc.document = "list" THEN {ListBehaviour(ListIndex(chat_name))}
    ELSE IF sc.document = "long" THEN {LongBehaviour(ListIndex(chat_name))}
    ELSE {"raises_early", "raises_late", "click_fails", "no_messages",
          "messages"}

\* what the messages of the chat may yield
FindingsOf(sc, chat_name) ==
    IF sc.document \in {"list", "long"} THEN {ListFound[ListIndex(chat_name)]}
    ELSE Findings

\* the body of the for loop for chat i, up to the call of save_contact
ChatOpen ==
    /\ scan.pc = "chat"
    /\ LET chat_name == scan.current_batch_chats[scan.i]
           clicked == [scan EXCEPT !.opened = Append(@, chat_name)]
           how == Behaviours(scan, chat_name)
       IN  \/ \* an exception before the click: except Exception: continue
              /\ "raises_early" \in how
              /\ scan' = AfterChat(scan, FALSE)
              /\ UNCHANGED save
           \/ \* an exception after the click
              /\ "raises_late" \in how
              /\ scan' = AfterChat(clicked, FALSE)
              /\ UNCHANGED save
           \/ \* click_chat_element returns False
              /\ "click_fails" \in how
              /\ scan' = AfterChat(clicked, FALSE)
              /\ UNCHANGED save
           \/ \* get_last_messages_from_open_chat returns []
              /\ "no_messages" \in how
              /\ scan' = AfterChat(clicked, FALSE)
              /\ UNCHANGED save
           \/ /\ "messages" \in how
              /\ \E found \in FindingsOf(scan, chat_name) :
                 \E resolved \in {Resolve(chat_name, found)} :
                    IF resolved.phone # Empty /\ resolved.email # Empty
                    THEN /\ scan' = [clicked EXCEPT !.pc = "saving"]
                         /\ save' = [save EXCEPT ![1] =
                                Frame(resolved.phone, resolved.email, NoPrev)]
                    ELSE /\ scan' = AfterChat(clicked, TRUE)
                         /\ UNCHANGED save
    /\ UNCHANGED contacts

\* save_contact has returned: the rest of the body of the for loop
ChatSaved ==
    /\ scan.pc = "saving"
    /\ save[1].pc = "done"
    /\ \/ scan' = AfterChat(
                [scan EXCEPT !.total_saved =
                    IF save[1].ret = "True" THEN @ + 1 ELSE @], TRUE)
       \/ \* an exception raised by a print of the body
          scan' = AfterChat(scan, FALSE)
    /\ save' = [save EXCEPT ![1] = Idle]
    /\ UNCHANGED contacts

\* the end of a batch that had new chats, without the batch limit
ScanScroll_NoLimit ==
    /\ scan.pc = "scroll"
    /\ scan' = [scan EXCEPT !.pc = "loop"]
    /\ UNCHANGED <<contacts, save>>

\* the end of a batch that had new chats
ScanScroll ==
    /\ scan.pc = "scroll"
    /\ scan' = IF scan.batch_count < BatchLimit
               THEN [scan EXCEPT !.pc = "loop"]
               ELSE [scan EXCEPT !.pc = "sleep", !.why = "limit"]
    /\ UNCHANGED <<contacts, save>>

\* main, with the loop ended by a scan that processed nothing
MainSleep_StopWhenIdle ==
    /\ scan.pc = "sleep"
    /\ scan' = [scan EXCEPT !.pc = IF scan.total_processed = 0
                                   THEN "stopped" ELSE "start"]
    /\ UNCHANGED <<contacts, save>>

\* main: time.sleep(30), then the next scan
MainSleep ==
    /\ scan.pc = "sleep"
    /\ scan' = [scan EXCEPT !.pc = "start"]
    /\ UNCHANGED <<contacts, save>>

ScanNext ==
    \/ ScanStart
    \/ ScanBatch
    \/ ScanEnd
    \/ ChatOpen
    \/ SaveValidate(1)
    \/ SaveSelect(1)
    \/ SavePost(1)
    \/ SaveUpdate(1)
    \/ SaveInsert(1)
    \/ ChatSaved
    \/ ScanScroll
    \/ MainSleep

SpecScan == ScanInit /\ [][ScanNext]_vars

\* the loop of main never gives up its turn: the sleep of 30 seconds ends
SpecScanLive == SpecScan /\ WF_vars(MainSleep)

-----------------------------------------------------------------------------
(* One discovery: the loop over visible_chats on any rows, any processed
   set and any streak, and the opening of the first chat of the batch *)

DiscoverInit ==
    /\ contacts = <<>>
    /\ save = [p \in Procs |-> Idle]
    /\ \E visible_chats \in SeqsUpTo(DiscoverRows, MaxVisible),
          processed \in SUBSET Names, count \in 0..(StreakLimit - 1) :
        scan = [pc |-> "visible", visible_chats |-> visible_chats,
                processed0 |-> processed, processed_chats |-> processed,
                count0 |-> count, no_new_chats_count |-> count,
                current_batch_chats |-> <<>>, opened |-> <<>>]

\* the loop over visible_chats and the update of no_new_chats_count
DiscoverBatch ==
    /\ scan.pc = "visible"
    /\ \E found \in {Discover(scan.visible_chats, <<>>, scan.processed_chats, {})} :
        scan' = [scan EXCEPT
            !.pc = "discovered",
            !.processed_chats = found.processed,
            !.current_batch_chats = found.batch,
            !.no_new_chats_count =
                IF scan.visible_chats = <<>> THEN @ + 1
                ELSE NextStreak(@, Len(found.batch))]
    /\ UNCHANGED <<contacts, save>>

\* the first turn of the for loop: click_chat_element for the first chat
DiscoverOpen ==
    /\ scan.pc = "discovered"
    /\ scan.current_batch_chats # <<>>
    /\ scan' = [scan EXCEPT !.pc = "opening",
                            !.opened = <<scan.current_batch_chats[1]>>]
    /\ UNCHANGED <<contacts, save>>

DiscoverNext ==
    \/ DiscoverBatch
    \/ DiscoverOpen

SpecDiscover == DiscoverInit /\ [][DiscoverNext]_vars

-----------------------------------------------------------------------------
(* The scan of a long chat list *)

CeilInit ==
    /\ contacts = <<>>
    /\ save = [p \in Procs |-> Idle]
    /\ \E len \in ListLengths :
        scan = [ScanLocals EXCEPT !.pc = "start", !.document = "list",
                                  !.rows = len]

SpecCeil == CeilInit /\ [][ScanNext]_vars

-----------------------------------------------------------------------------
(* The scan of a list scrolled one row at a time, most of whose chats cannot
   be opened *)

\* the lengths of that list: one row short of the batch limit, and beyond it
LongLengths == {BatchLimit - 1, LongChats}

LimitInit ==
    /\ contacts = <<>>
    /\ save = [p \in Procs |-> Idle]
    /\ \E len \in LongLengths :
        scan = [ScanLocals EXCEPT !.pc = "start", !.document = "long",
                                  !.rows = len]

SpecLimit == LimitInit /\ [][ScanNext]_vars

-----------------------------------------------------------------------------
(* The operator's interrupt *)

\* Ctrl+C while the scan runs: KeyboardInterrupt is raised in the statement
\* being executed. A handler "except Exception" lets it pass and main prints
\* "Stopped by user"; a bare "except:" around the statement catches it and
\* the scan goes on. The bare handlers are in get_current_visible_chats and
\* extract_chat_data (discovery) and in click_chat_by_name and
\* get_last_messages_from_open_chat (the chat being processed)
Interrupt ==
    /\ scan.pc \in {"start", "loop", "chat", "saving", "scroll", "sleep"}
    /\ scan.sigint = "none"
    /\ \/ /\ scan' = [scan EXCEPT !.pc = "stopped", !.why = "interrupt"]
          /\ save' = [save EXCEPT ![1] = Idle]
       \/ /\ scan.pc \in {"loop", "chat"}
          /\ scan.no_new_chats_count < StreakLimit
          /\ scan.total_processed < Ceiling
          /\ scan' = [scan EXCEPT
                !.sigint = "swallowed",
                !.in_flight = Len(scan.opened)
                                + IF scan.pc = "chat" THEN 1 ELSE 0]
          /\ UNCHANGED save
    /\ UNCHANGED contacts

CancelNext ==
    \/ ScanNext
    \/ Interrupt

SpecCancel == ScanInit /\ [][CancelNext]_vars

-----------------------------------------------------------------------------
(* Claims about the contact store *)

\* the rows of the table holding the pair (phone, email)
RowsOfPair(rows, phone, email) ==
    {i \in DOMAIN rows : rows[i].phone = phone /\ rows[i].email = email}

\* the entries of listAll holding the pair
ListedPair(phone, email) ==
    {k \in DOMAIN get_all_contacts(contacts) :
        /\ get_all_contacts(contacts)[k][1] = phone
        /\ get_all_contacts(contacts)[k][2] = email}

\* the rows the table held at the call are still there, with the same id,
\* phone and email
KeepsRows(p) ==
    /\ Len(contacts) >= Len(save[p].rows0)
    /\ \A i \in DOMAIN save[p].rows0 :
        /\ contacts[i].id = save[p].rows0[i].id
        /\ contacts[i].phone = save[p].rows0[i].phone
        /\ contacts[i].email = save[p].rows0[i].email

\* C1: in every reachable state of the store no two rows have the same
\* email while both are verified
C1_VerifiedEmailUnique ==
    \A i, j \in DOMAIN contacts :
        (i # j /\ contacts[i].email = contacts[j].email)
            => ~(contacts[i].is_verified /\ contacts[j].is_verified)

\* a save answered with a replacement has returned True and left a demoted
\* row beside a verified one
C1_Witness ==
    /\ save[1].pc = "done" /\ save[1].ret = "True"
    /\ save[1].resp.body = "replaced"
    /\ \E i, j \in DOMAIN contacts :
        ~contacts[i].is_verified /\ contacts[j].is_verified

C4_Rejected ==
    /\ (/\ save[1].pc = "done"
        /\ (save[1].phone = Empty \/ save[1].email = Empty
                \/ Len(save[1].phone) < 12))
        => /\ save[1].ret = "False"
           /\ save[1].log \in {"required", "not_valid"}
           /\ save[1].nreq = 0
           /\ contacts = save[1].rows0
    /\ \A i \in DOMAIN contacts :
        /\ contacts[i].phone # Empty
        /\ contacts[i].email # Empty
        /\ Len(contacts[i].phone) >= 12

\* a phone of 11 characters has been rejected with a non-empty table
C4_Witness ==
    /\ save[1].pc = "done" /\ save[1].log = "not_valid"
    /\ Len(save[1].phone) = 11 /\ save[1].email # Empty
    /\ contacts # <<>>

C7_NoPartialMutation ==
    (save[1].pc = "done" /\ save[1].ret # "True")
        => contacts = save[1].rows0

\* the responses a call may be given in a sequential run: the one it got, or
\* any if it sent no request
ResponsesOf(p) ==
    IF save[p].nreq > 0 THEN {save[p].resp} ELSE Responses

\* the table, and which calls report Saved (return True), are those of the
\* call of a followed by the call of b, from the table both started on
SerialOrder(a, b) ==
    \E ra \in ResponsesOf(a), rb \in ResponsesOf(b) :
        LET first == SaveSeq(save[a].rows0, save[a].phone, save[a].email, ra)
            second == SaveSeq(first.rows, save[b].phone, save[b].email, rb)
        IN  /\ contacts = second.rows
            /\ (save[a].ret = "True") <=> (first.ret = "True")
            /\ (save[b].ret = "True") <=> (second.ret = "True")

\* C8: under any interleaving of two concurrent save calls the outcome is
\* that of some sequential order of the two, no email is inserted twice, and
\* a phone both calls superseded is left with at most one verified row
C8_Serializable ==
    (\A q \in Procs : save[q].pc = "done")
        => /\ SerialOrder(1, 2) \/ SerialOrder(2, 1)
           /\ \A i, j \in DOMAIN contacts :
                i # j => contacts[i].email # contacts[j].email
           /\ (/\ save[1].phone = save[2].phone
               /\ save[1].resp.body = "replaced"
               /\ save[2].resp.body = "replaced"
               /\ save[1].ret = "True" /\ save[2].ret = "True")
                => Cardinality({i \in DOMAIN contacts :
                        /\ contacts[i].phone = save[1].phone
                        /\ contacts[i].is_verified}) <= 1

-----------------------------------------------------------------------------
(* Claims about the scan *)

\* the scan is inside process_chats_with_scrolling
Scanning == scan.pc \in {"loop", "chat", "saving", "scroll"}

Openings(name) ==
    Cardinality({k \in DOMAIN scan.opened : scan.opened[k] = name})

\* C9: within one scan every chat name is handed to the chat processor at
\* most once, whatever the outcome and however often later batches show it
C9_OpenedOnce ==
    \A k1, k2 \in DOMAIN scan.opened :
        k1 # k2 => scan.opened[k1] # scan.opened[k2]

\* a chat opened in an earlier batch was shown again by a later batch
C9_Witness ==
    /\ Scanning
    /\ scan.batch_count >= 2
    /\ \E name \in scan.skipped : Openings(name) = 1

\* the length of the run of batches without new names that ends recent
RECURSIVE TrailingOld(_)
TrailingOld(recent) ==
    IF recent = <<>> \/ recent[Len(recent)] = "new"
    THEN 0
    ELSE 1 + TrailingOld(SubSeq(recent, 1, Len(recent) - 1))

\* C10: the scan ends as soon as three consecutive batches gave no new name
\* (a batch without visible rows counts), whatever rows remain visible; a
\* batch with a new name resets the streak, so the streak rule never ends a
\* scan after fewer than three such batches in a row
C10_StreakEndsScan ==
    /\ [](Scanning => scan.no_new_chats_count = TrailingOld(scan.recent))
    /\ [](scan.why = "streak" => TrailingOld(scan.recent) = 3)
    /\ [][(Scanning /\ TrailingOld(scan.recent) = 3) =>
            (scan'.pc = "sleep" /\ scan'.why = "streak")]_vars

\* a scan has ended by the streak rule after chats were processed, with the
\* last batch showing only rows already seen and an earlier one no row
C10_Witness ==
    /\ scan.pc = "sleep" /\ scan.why = "streak"
    /\ scan.recent[3] = "old" /\ scan.recent[1] = "empty"
    /\ scan.skipped # {}
    /\ scan.total_processed > 0

\* C11: in every scan the processed count never exceeds the ceiling of 20
\* and once it has reached 20 no further chat is opened in the scan, which
\* then ends by the ceiling; a scan ended by the streak of three batches
\* without new names has processed fewer than 20, and one ended by the
\* ceiling has a streak below three
C11_Ceiling ==
    /\ [](scan.total_processed <= Ceiling)
    /\ [](scan.why = "ceiling" =>
            /\ scan.total_processed = Ceiling
            /\ scan.no_new_chats_count < StreakLimit)
    /\ [](scan.why = "streak" => scan.total_processed < Ceiling)
    /\ [][(Scanning /\ scan.total_processed >= Ceiling) =>
            /\ scan'.opened = scan.opened
            /\ scan'.pc \in {"scroll", "loop", "sleep"}
            /\ scan'.pc = "sleep" => scan'.why = "ceiling"]_vars

\* a scan of the long list has ended by the ceiling with twenty chats
\* processed and a chat of its last batch never opened
C11_Witness ==
    /\ scan.pc = "sleep" /\ scan.why = "ceiling"
    /\ scan.total_processed = Ceiling
    /\ \E name \in scan.processed_chats : Openings(name) = 0

\* C12: the processed set is empty when a scan starts, and after the first
\* batch it holds the names of that batch only: no name carries over from
\* the scan before, so a chat processed in one scan is opened again in the
\* next
C12_ProcessedReset ==
    /\ (Scanning /\ scan.batch_count = 0) => scan.processed_chats = {}
    /\ (Scanning /\ scan.batch_count = 1) =>
            scan.processed_chats =
                {scan.current_batch_chats[k] : k \in DOMAIN scan.current_batch_chats}

\* the chat an earlier scan opened first has been opened again in this scan
C12_Witness ==
    /\ Scanning
    /\ scan.earlier # Empty
    /\ Openings(scan.earlier) = 1

\* C13: the sleep after a scan, whether the scan completed or found no
\* container, is always followed by the start of a new scan and by nothing
\* else; a scan without container returns zero counts
C13_CyclesForever ==
    /\ (scan.pc = "sleep") ~> (scan.pc = "start")
    /\ [][scan.pc = "sleep" => scan'.pc = "start"]_vars
    /\ [](scan.why = "no_container" =>
            /\ scan.pc \in {"sleep", "start"}
            /\ scan.total_processed = 0 /\ scan.total_saved = 0)

\* after scans that opened chats, a scan found no container and the sleep
\* after it has ended with the start of the next scan
C13_Witness ==
    /\ scan.pc = "start" /\ scan.why = "no_container"
    /\ scan.earlier # Empty

\* C14: after an operator interrupt no chat is opened beyond the one being
\* processed when it came
C14_InterruptStops ==
    scan.sigint = "swallowed" => Len(scan.opened) <= scan.in_flight

\* C15: the call to the verification service always returns
C15_PostReturns == (save[1].pc = "post") ~> (save[1].pc # "post")

-----------------------------------------------------------------------------
(* Claims about the processing of one chat *)

\* the messages of the window in which the extractor finds an email, a phone
WithEmail(messages) ==
    {k \in DOMAIN messages : EmailIn[messages[k].body] # Empty}

WithPhone(messages) ==
    {k \in DOMAIN messages : PhoneIn[messages[k].body] # Empty}

\* the search of all the messages, without the early stop
RECURSIVE ScanAll(_, _, _)
ScanAll(messages, email_result, phone_result) ==
    IF messages = <<>>
    THEN [email |-> email_result, phone |-> phone_result]
    ELSE ScanAll(Tail(messages),
            IF ~email_result.found /\ EmailIn[Head(messages).body] # Empty
            THEN ResultOf(EmailIn[Head(messages).body], Head(messages))
            ELSE email_result,
            IF ~phone_result.found /\ PhoneIn[Head(messages).body] # Empty
            THEN ResultOf(PhoneIn[Head(messages).body], Head(messages))
            ELSE phone_result)

\* C16: for messages in recency order find-across-messages returns the email
\* of the first message (lowest position) that has one and the phone of the
\* first message that has one, each with the position and direction of its
\* message, and the result is that of the search without the early stop
C16_FirstFound ==
    scan.pc = "found" =>
        LET ms == scan.messages
            e == IF WithEmail(ms) = {} THEN 0 ELSE Min(WithEmail(ms))
            p == IF WithPhone(ms) = {} THEN 0 ELSE Min(WithPhone(ms))
        IN  /\ \A k \in DOMAIN ms : ms[k].position = k
            /\ scan.found.email =
                    IF e = 0 THEN NoResult
                    ELSE [found |-> TRUE,
                          value |-> EmailIn[ms[e].body],
                          message_position |-> ms[e].position,
                          direction |-> ms[e].direction]
            /\ scan.found.phone =
                    IF p = 0 THEN NoResult
                    ELSE [found |-> TRUE,
                          value |-> PhoneIn[ms[p].body],
                          message_position |-> ms[p].position,
                          direction |-> ms[p].direction]
            /\ scan.found = ScanAll(ms, NoResult, NoResult)

\* the search stopped at the second of three messages, with the phone of the
\* first and the email of the second, the third holding another email
C16_Witness ==
    /\ scan.pc = "found"
    /\ Len(scan.messages) = 3
    /\ scan.found.phone.message_position = 1
    /\ scan.found.email.message_position = 2
    /\ EmailIn[scan.messages[3].body]
            \notin {Empty, scan.found.email.value}

\* C17: the phone passed to save is the normalized phone of the first message
\* that has one whenever a message of the window has one, and the normalized
\* chat name only otherwise; the email passed to save is the email found in a
\* message, and without one save is not called, whatever the chat name
C17_PhonePolicy ==
    scan.pc \in {"saving", "missing"} =>
        LET ms == scan.messages
        IN  /\ scan.resolved.phone =
                    IF WithPhone(ms) # {}
                    THEN clean_phone_number(PhoneIn[ms[Min(WithPhone(ms))].body])
                    ELSE clean_phone_number(scan.chat_name)
            /\ scan.resolved.email =
                    IF WithEmail(ms) # {}
                    THEN EmailIn[ms[Min(WithEmail(ms))].body]
                    ELSE Empty
            /\ scan.pc = "saving" =>
                    /\ save[1].phone = scan.resolved.phone
                    /\ save[1].email = scan.resolved.email
                    /\ WithEmail(ms) # {}
            /\ WithEmail(ms) = {} => scan.pc = "missing"

\* save has been called for the chat "John, +1 555 2231" with the phone of a
\* message, not the one its name cleans to
C17_Witness ==
    /\ scan.pc = "saving"
    /\ scan.chat_name = NameJohn
    /\ clean_phone_number(scan.chat_name) # Empty
    /\ scan.found.phone.found
    /\ save[1].phone \in ValidPhones
    /\ save[1].phone # clean_phone_number(scan.chat_name)

\* the chat has been dealt with
ChatFinished == scan.pc \in {"no_messages", "missing", "saved", "not_saved"}

\* C18: the chat "John, +1 555 2231" with the messages "hi", "email me
\* john@ex.com", "ok" and a service that accepts gives the email john@ex.com
\* at position 2 and the phone of the cleaned chat name, save is called, and a
\* verified row of that contact is stored
C18_EndToEnd ==
    (/\ ChatFinished
     /\ scan.chat_name = NameJohn
     /\ [k \in DOMAIN scan.elements |-> scan.elements[k].text]
            = <<TextHi, TextMailJohn, TextOk>>
     /\ save[1].nreq > 0 => Accepted(save[1].resp))
        => /\ scan.found.email.value = EmailJohn
           /\ scan.found.email.message_position = 2
           /\ ~scan.found.phone.found
           /\ scan.resolved.phone = clean_phone_number(NameJohn)
           /\ scan.pc \in {"saved", "not_saved"}
           /\ \E i \in DOMAIN contacts :
                /\ contacts[i].email = EmailJohn
                /\ contacts[i].phone = clean_phone_number(NameJohn)
                /\ contacts[i].is_verified

\* C19: every row the pipeline stores has as chat_name the display name of
\* the chat it was extracted from
C19_ChatNameStored ==
    \A i \in DOMAIN contacts : contacts[i].chat_name = scan.chat_name

\* C23: rows are never deleted and their id, phone, email and chat name never
\* change: at every step of any sequence of save calls the rows present stay
\* where they are, differing at most in the verified flag, and ids are not
\* reused
C23_RowsKept ==
    /\ [][/\ Len(contacts') >= Len(contacts)
          /\ \A i \in DOMAIN contacts :
                [contacts'[i] EXCEPT !.is_verified = contacts[i].is_verified]
                    = contacts[i]]_vars
    /\ [](\A i, j \in DOMAIN contacts :
            i # j => contacts[i].id # contacts[j].id)

\* a row demoted by a replacement is still in the table, unverified, under
\* the row inserted after it
C23_Witness ==
    /\ Len(contacts) >= 2
    /\ ~contacts[1].is_verified
    /\ contacts[Len(contacts)].is_verified
    /\ contacts[Len(contacts)].phone = contacts[1].phone

\* C24: init_database never fails and never drops or changes stored data,
\* whatever table the file held and however often it has run; every run
\* leaves the table with the is_verified and chat_name columns, and every
\* later run leaves the schema the first run left
C24_Idempotent ==
    /\ [](scan.pc # "failed")
    /\ [][/\ Len(contacts') = Len(contacts)
          /\ \A i \in DOMAIN contacts : \A f \in DOMAIN contacts[i] :
                contacts'[i][f] = contacts[i][f]]_vars
    /\ [](scan.pc = "returned" =>
            /\ scan.table
            /\ HasColumn(scan.columns, ColVerified)
            /\ HasColumn(scan.columns, ColChatName)
            /\ Schema(scan) = scan.once[1])

\* init_database has run twice on a table of the reduced program that held
\* rows, and the rows have both new columns
C24_Witness ==
    /\ scan.pc = "returned" /\ scan.runs >= 2
    /\ scan.columns =
            <<ColId, ColPhone, ColEmail, ColCreated, ColVerified, ColChatName>>
    /\ Len(contacts) = 2
    /\ contacts[2].is_verified = FALSE /\ contacts[2].chat_name = NULL

\* C25: whatever happens to a chat (it cannot be opened, shows no message,
\* lacks a phone or an email, is refused by the service, or raises), the
\* scan stays in its batch: below the ceiling the next chat of the batch, in
\* the order of discovery, is the next one processed, after the last chat
\* the batch ends, and the chats are opened in the order of the batch
C25_FailureContinues ==
    /\ [][scan.pc \in {"chat", "saving"} =>
            /\ scan'.pc \in {"chat", "saving", "scroll"}
            /\ scan'.current_batch_chats = scan.current_batch_chats
            /\ (scan'.pc # "saving" /\ scan'.total_processed < Ceiling) =>
                    IF scan.i < Len(scan.current_batch_chats)
                    THEN scan'.pc = "chat" /\ scan'.i = scan.i + 1
                    ELSE scan'.pc = "scroll"]_vars
    /\ [][Len(scan'.opened) > Len(scan.opened) =>
            scan'.opened =
                Append(scan.opened, scan.current_batch_chats[scan.i])]_vars
    /\ [](scan.pc = "stopped" => scan.why = "error")

\* the first chat of a batch of two was opened and not counted, and the
\* second chat is the next
C25_Witness ==
    /\ scan.pc = "chat" /\ scan.i = 2
    /\ scan.batch_count = 1
    /\ scan.opened = <<scan.current_batch_chats[1]>>
    /\ scan.total_processed = 0

\* C26: for a chat whose messages were read, save is called exactly when a
\* phone and an email were both resolved, with those two values and once;
\* when either is missing, or the chat shows no message, save is not called
\* and no verification request is sent
C26_SaveIffBoth ==
    /\ [](scan.pc \in {"saving", "saved", "not_saved"} =>
            /\ scan.resolved.phone # Empty /\ scan.resolved.email # Empty
            /\ save[1].pc # "idle"
            /\ save[1].phone = scan.resolved.phone
            /\ save[1].email = scan.resolved.email
            /\ save[1].nreq <= 1)
    /\ [](scan.pc = "missing" =>
            /\ scan.resolved.phone = Empty \/ scan.resolved.email = Empty
            /\ save[1] = Idle)
    /\ [](scan.pc \in {"opened", "read", "found", "no_messages"} =>
            save[1] = Idle)
    /\ [][save[1].pc # "idle" => save'[1].pc # "validate"
                                    \/ save[1].pc = "validate"]_vars

\* the chat name gave a phone and the messages no email: the chat has been
\* counted without a call of save
C26_Witness ==
    /\ scan.pc = "missing"
    /\ scan.resolved.phone # Empty /\ scan.resolved.email = Empty
    /\ scan.messages # <<>>
    /\ save[1].pc = "idle" /\ save[1].nreq = 0

\* C27: the batch counter of a scan never exceeds 102: a scan ended by the
\* batch limit has counted at least 100 batches and its last batch had new
\* names, and from the hundredth batch on the loop is only entered again
\* after batches without new names, which end the scan at the third
C27_BatchesBounded ==
    /\ [](scan.batch_count <= BatchLimit + StreakLimit - 1)
    /\ [](scan.why = "limit" =>
            /\ scan.batch_count >= BatchLimit
            /\ scan.no_new_chats_count = 0)
    /\ []((scan.pc = "loop" /\ scan.batch_count >= BatchLimit) =>
            scan.no_new_chats_count >= scan.batch_count - BatchLimit + 1)

\* a scan has ended by the streak at its batch 102
C27_Witness ==
    /\ scan.pc = "sleep" /\ scan.why = "streak"
    /\ scan.batch_count = BatchLimit + StreakLimit - 1
    /\ Cardinality(scan.processed_chats) = BatchLimit - 1

\* C28: the names of a batch are in the processed set before its first chat
\* is opened; the processed counter grows by one, and only for the chat of
\* the batch that was opened last and showed messages; the saved count never
\* exceeds the processed count nor that the size of the processed set; and
\* once the ceiling has cut a batch short nothing more is opened in the scan
C28_CountersOrdered ==
    /\ [](scan.pc = "chat" =>
            \A k \in scan.i..Len(scan.current_batch_chats) :
                /\ scan.current_batch_chats[k] \in scan.processed_chats
                /\ Openings(scan.current_batch_chats[k]) = 0)
    /\ [][scan'.total_processed > scan.total_processed =>
            /\ scan'.total_processed = scan.total_processed + 1
            /\ scan'.opened # <<>>
            /\ scan'.opened[Len(scan'.opened)]
                    = scan.current_batch_chats[scan.i]
            /\ "messages" \in Behaviours(scan, scan.current_batch_chats[scan.i])]_vars
    /\ [](/\ scan.total_saved <= scan.total_processed
          /\ scan.total_processed <= Cardinality(scan.processed_chats))
    /\ [][(scan.pc = "scroll" /\ scan.i < Len(scan.current_batch_chats)) =>
            /\ scan.total_processed >= Ceiling
            /\ scan'.pc \in {"loop", "sleep"}]_vars
    /\ [][(Scanning /\ scan.total_processed >= Ceiling) =>
            Len(scan'.opened) <= Len(scan.opened)]_vars

\* the ceiling has cut a batch short after its first chat, with contacts
\* saved and names in the processed set that were not processed
C28_Witness ==
    /\ scan.pc = "scroll"
    /\ scan.i < Len(scan.current_batch_chats)
    /\ scan.total_processed = Ceiling
    /\ scan.total_saved >= 1
    /\ scan.total_processed < Cardinality(scan.processed_chats)

\* the rows of a table that hold the email
RowsWithEmail(rows, email) == {i \in DOMAIN rows : rows[i].email = email}

\* C30: no two rows of the table share an email, whatever their is_verified;
\* a save of an email that a row held at the call, verified or demoted, has
\* not returned True and has left the email with that one row
C30_EmailUnique ==
    /\ \A i, j \in DOMAIN contacts :
            i # j => contacts[i].email # contacts[j].email
    /\ \A p \in Procs :
        (/\ save[p].pc = "done"
         /\ RowsWithEmail(save[p].rows0, save[p].email) # {})
            => /\ save[p].ret # "True"
               /\ RowsWithEmail(contacts, save[p].email)
                    = RowsWithEmail(save[p].rows0, save[p].email)

\* a save of an email held by a demoted row has passed the existence check,
\* sent its request and had its INSERT refused
C30_Witness ==
    /\ save[1].pc = "done" /\ save[1].ret = "None"
    /\ save[1].nreq = 1
    /\ PostOutcome(save[1].resp) \in {"update", "insert"}
    /\ \E i \in RowsWithEmail(save[1].rows0, save[1].email) :
            ~save[1].rows0[i].is_verified
    /\ Len(contacts) >= 2

\* the row gives no name: extract_chat_data returns None, the placeholder
\* "Unknown" or an empty name
Unnamed(row) ==
    ~ChatData[row].ok \/ ChatData[row].chat_name \in {Unknown, Empty}

\* C29: a row without a name is never added to the processed set and never
\* opened, and a batch of such rows only counts as a batch without new names
C29_UnnamedSkipped ==
    scan.pc \in {"discovered", "opening"} =>
        LET named == {ChatData[scan.visible_chats[k]].chat_name :
                        k \in {j \in DOMAIN scan.visible_chats :
                                    ~Unnamed(scan.visible_chats[j])}}
        IN  /\ scan.processed_chats \ scan.processed0 \subseteq named
            /\ \A k \in DOMAIN scan.current_batch_chats :
                    scan.current_batch_chats[k] \in named
            /\ \A k \in DOMAIN scan.opened : scan.opened[k] \in named
            /\ named = {} =>
                    /\ scan.current_batch_chats = <<>>
                    /\ scan.no_new_chats_count = scan.count0 + 1

\* C22: the activation of a chat reports failure only after the lookup by
\* name was attempted: an unusable handle (stale, not displayed, click
\* raising) never fails the chat outright
C22_RelookupFirst ==
    (scan.pc = "returned" /\ scan.ret = "False") => scan.attempt >= 1

-----------------------------------------------------------------------------
(* Claims about the identifier extractor *)

\* the pattern matches somewhere in the text
Matches(name, t) == \E k \in 1..Len(t) : PatternAt(name, t, k) # 0

\* C20: findPhone returns the match of the first pattern, in the order
\* international, parenthesized, dashed, bare, that matches anywhere in the
\* text (nothing if none does), wherever the patterns match and however many
\* digits they cover; a text with a parenthesized number and a ten-digit run
\* and no "+" number gives the parenthesized number
C20_PatternOrder ==
    scan.pc = "extracted" =>
        /\ scan.phone = Empty <=>
                \A i \in DOMAIN PhonePatterns : ~Matches(PhonePatterns[i], scan.text)
        /\ \A i \in DOMAIN PhonePatterns :
                (/\ Matches(PhonePatterns[i], scan.text)
                 /\ \A j \in 1..(i - 1) : ~Matches(PhonePatterns[j], scan.text))
                    => scan.phone = Search(PhonePatterns[i], scan.text)
        /\ (/\ Contains(scan.text, ParenNumber)
            /\ Contains(scan.text, TenDigits)
            /\ ~Matches("international", scan.text))
                => scan.phone = ParenNumber

\* a text whose digit run of seventeen comes before its parenthesized number
\* has given the parenthesized number
C20_Witness ==
    /\ scan.pc = "extracted"
    /\ scan.text = SeventeenDigits \o ParenNumber
    /\ Matches("bare", scan.text) /\ Matches("dashed", scan.text)
    /\ scan.phone = ParenNumber

\* C21: findPhone("call +1 415-555-0198 now") is matched by the
\* international pattern and the result starts with "+1"
C21_International ==
    (scan.pc = "extracted" /\ scan.text = CallText) =>
        /\ Matches("international", scan.text)
        /\ Len(scan.phone) >= 2
        /\ SubSeq(scan.phone, 1, 2) = <<"+", "1">>

====
